---- MODULE Spec2Model ----
(***************************************************************************)
(* Model of cdialer.Dialer (src/dialer.go): a caching, round-robin dialer. *)
(* Every caller is a process that walks through Dial and getAddrs; the     *)
(* cache (addrs, resolved), the counter idx and the RWMutex mx are shared. *)
(* Strings are sequences of tokens, so that splitting a key, formatting an *)
(* IP and looking for a colon are computed and not assumed.                *)
(***************************************************************************)
EXTENDS Integers, Sequences, FiniteSets, TLC

VARIABLES
    dAddrs,      \* d.addrs: map from key to list of addresses (partial function)
    resolved,    \* d.resolved
    idx,         \* d.idx
    writer,      \* d.mx: the process holding the exclusive lock, or NoProc
    readers,     \* d.mx: the processes holding the shared lock
    excludeIPv6, \* d.ExcludeIPv6
    clock,       \* time.Now()
    pc,          \* position of each caller
    host,        \* Dial's argument host (the cache key)
    now,         \* getAddrs' local now
    addrs,       \* the local addrs of getAddrs / Dial
    err,         \* the local err of getAddrs / Dial
    addr,        \* Dial's local addr (the address handed to the connector)
    found,       \* Dial's local found
    ips,         \* resolve's local ips (result of LookupIP)
    nLookups,    \* history: LookupIP invocations of the current call
    nDials,      \* history: connector invocations of the current call
    nIncs,       \* history: increments of d.idx made by the current call
    entry,       \* history: the key's list and the cache's freshness when the
                 \* call started; whether another caller stored a list for
                 \* the key while this one waited for the exclusive lock
    lastSel,     \* history: the addresses selected in a row from one list
    lastStored,  \* history: per key, the last list stored by updateAddrs
    storedAt,    \* history: per key, the time of that store
    failsSince,  \* history: per key, connector failures since that store
    batch        \* history: per call, until it selects an address: on when the
                 \* call started on a fresh cache with its key's list absent
                 \* or empty and since then the cache has stayed fresh, no
                 \* resolution of the key has failed, returned nothing or
                 \* been made by a caller of the stale branch and no
                 \* connector attempt for the key has failed or has been
                 \* followed by its eviction; stores counts the lists stored
                 \* for the key meanwhile

shared == <<dAddrs, resolved, idx, writer, readers, excludeIPv6, clock>>
locals == <<pc, host, now, addrs, err, addr, found, ips>>
history == <<nLookups, nDials, nIncs, entry, lastSel, lastStored, storedAt, failsSince, batch>>
vars == <<shared, locals, history>>

----------------------------------------------------------------------------
\* Bounds of the model

MaxTime == 2       \* last tick of the clock
MaxIdx == 2        \* selections made by concurrent callers
MaxIdxSeq == 6     \* selections made by a single caller
IdxBits == 6       \* width of the counter in the model (int64 in the code)

\* var defaultTTL (the time unit of the model is one TTL)
defaultTTL == 1

\* the concurrent callers
Procs == {1, 2}
NoProc == 0

----------------------------------------------------------------------------
\* Strings, keys and IPs

KeyA == <<"a", ":", "80">>
KeyB == <<"b", ":", "81">>
KeyBad == <<"a">>
Keys == {KeyA, KeyB, KeyBad}
\* the keys concurrent callers dial
ConcKeys == {KeyA, KeyBad}

\* net.IP values: a 4-byte IPv4, a 16-byte IPv4-mapped one (net.ParseIP), IPv6
IPa == [len |-> 16, v4mapped |-> TRUE, b |-> "1"]
IPb == [len |-> 4, v4mapped |-> FALSE, b |-> "2"]
IPc == [len |-> 16, v4mapped |-> FALSE, b |-> "9"]

\* What the injected LookupIP can return for a host on success
LookupIP(h) ==
    IF h = <<"a">>
    THEN { <<>>, <<IPc>>, <<IPa, IPb>> }
    ELSE { <<IPb, IPc, IPa>> }

Range(s) == {s[i] : i \in 1..Len(s)}

LastIndex(s, c) ==
    LET I == {i \in 1..Len(s) : s[i] = c}
    IN IF I = {} THEN 0 ELSE CHOOSE i \in I : \A j \in I : j <= i

\* net.SplitHostPort for keys without brackets
SplitHostPort(key) ==
    LET i == LastIndex(key, ":")
        bad == [err |-> "ErrSplit", host |-> <<>>, port |-> <<>>]
    IN IF i = 0 THEN bad
       ELSE IF ":" \in Range(SubSeq(key, 1, i - 1)) THEN bad
       ELSE [err |-> "nil", host |-> SubSeq(key, 1, i - 1),
             port |-> SubSeq(key, i + 1, Len(key))]

\* net.IP.String: dotted for IPv4 and IPv4-mapped, colon-separated for IPv6
IPString(ip) ==
    IF ip.len = 4 \/ ip.v4mapped THEN <<"10", ".", ip.b>>
    ELSE <<"2001", ":", ip.b>>

\* strings.IndexRune(addr, ':') > -1
HasColon(s) == \E i \in 1..Len(s) : s[i] = ":"

\* mutant: the address is formatted without brackets
FormatAddrPlain(a, port) == a \o <<":">> \o port

\* "[" + addr + "]:" + port
FormatAddr(a, port) == <<"[">> \o a \o <<"]:">> \o port

\* mutant: the loop of resolve never skips an IPv6 address
RECURSIVE ResolveLoopNoFilter(_, _, _, _)
ResolveLoopNoFilter(list, port, excl, acc) ==
    IF list = <<>> THEN acc
    ELSE ResolveLoopNoFilter(Tail(list), port, excl,
                             Append(acc, FormatAddr(IPString(Head(list)), port)))

\* the loop of resolve
RECURSIVE ResolveLoop(_, _, _, _)
ResolveLoop(list, port, excl, acc) ==
    IF list = <<>> THEN acc
    ELSE LET a == IPString(Head(list))
         IN IF excl /\ HasColon(a)
            THEN ResolveLoop(Tail(list), port, excl, acc)
            ELSE ResolveLoop(Tail(list), port, excl, Append(acc, FormatAddr(a, port)))

----------------------------------------------------------------------------
\* Shared state helpers

ZeroTime == 0 - (defaultTTL + 1)
TTL == defaultTTL

MinIdx == 0 - 2 ^ (IdxBits - 1)
MaxInt == 2 ^ (IdxBits - 1) - 1

\* mutant: the counter stops at its maximum
AddInt64Saturating(v, d) == IF v + d > MaxInt THEN MaxInt ELSE v + d

\* atomic.AddInt64 on the fixed-width counter
AddInt64(v, d) == ((v + d - MinIdx) % (2 ^ IdxBits)) + MinIdx

\* Go's %: the remainder takes the sign of the dividend
GoRem(a, n) == IF a >= 0 THEN a % n ELSE 0 - ((0 - a) % n)

\* d.addrs[key]: the list (nil when absent) and ok
MapGet(m, k) == IF k \in DOMAIN m THEN m[k] ELSE <<>>
MapOk(m, k) == k \in DOMAIN m
\* mutant: the map is made anew at every store
MapPutFresh(m, k, v) == [x \in {k} |-> v]

MapPut(m, k, v) == [x \in (DOMAIN m) \cup {k} |-> IF x = k THEN v ELSE m[x]]

\* mutant: the cache already expires at the TTL
ExpiredGe(n, r) == n - r >= TTL

\* now.Sub(d.resolved) > d.TTL
Expired(n, r) == n - r > TTL

\* mutant: an empty list counts as an entry
MissingOkOnly(m, k) == ~MapOk(m, k)

\* !ok || len(addrs) == 0
Missing(m, k) == ~MapOk(m, k) \/ Len(MapGet(m, k)) = 0

LockFree == writer = NoProc /\ readers = {}

NoEntry == [list |-> <<>>, ok |-> FALSE, fresh |-> FALSE, stored |-> FALSE]
NoSel == [key |-> <<>>, list |-> <<>>, trail |-> <<>>]
NoBatch == [on |-> FALSE, stores |-> 0]

\* the calls that have not yet taken their turn on the counter
Pending ==
    {p \in Procs : pc[p] \in {"sLock", "rLock", "rRead", "fLock", "update",
                                "lookup", "unlock", "gotAddrs"}}

\* history: the calls for key k are no longer on
BatchOff(k) == [q \in Procs |-> IF host[q] = k THEN NoBatch ELSE batch[q]]

----------------------------------------------------------------------------
Init ==
    /\ dAddrs = <<>>
    /\ resolved = ZeroTime
    /\ idx = 0
    /\ writer = NoProc
    /\ readers = {}
    /\ excludeIPv6 \in BOOLEAN
    /\ clock = 0
    /\ pc = [p \in Procs |-> "idle"]
    /\ host = [p \in Procs |-> <<>>]
    /\ now = [p \in Procs |-> 0]
    /\ addrs = [p \in Procs |-> <<>>]
    /\ err = [p \in Procs |-> "nil"]
    /\ addr = [p \in Procs |-> <<>>]
    /\ found = [p \in Procs |-> FALSE]
    /\ ips = [p \in Procs |-> <<>>]
    /\ nLookups = [p \in Procs |-> 0]
    /\ nDials = [p \in Procs |-> 0]
    /\ nIncs = [p \in Procs |-> 0]
    /\ entry = [p \in Procs |-> NoEntry]
    /\ lastSel = NoSel
    /\ lastStored = [k \in Keys |-> <<>>]
    /\ storedAt = [k \in Keys |-> ZeroTime]
    /\ failsSince = [k \in Keys |-> 0]
    /\ batch = [p \in Procs |-> NoBatch]

----------------------------------------------------------------------------
\* mutant: the stale branch returns the cached list whatever its age
StaleCachedKeepsOld(n, r, m, k) == MapGet(m, k)

\* getAddrs, stale branch, lines 83-91: the list the re-check under the
\* exclusive lock yields (the test reads the fresh local addrs, not list)
StaleCached(n, r, m, k) ==
    LET a0 == <<>>
    IN IF ~Expired(n, r)
       THEN (IF MapOk(m, k) /\ Len(a0) > 0 THEN MapGet(m, k) ELSE a0)
       ELSE a0

\* mutant: index stays at its initial value when the address is not found,
\* and found is not consulted
FirstIndexOrFirst(list, a) ==
    LET I == {i \in 1..Len(list) : list[i] = a}
    IN IF I = {} THEN 1 ELSE CHOOSE i \in I : \A j \in I : i <= j

\* Dial lines 57-71: the list without the first occurrence of a
FirstIndex(list, a) ==
    LET I == {i \in 1..Len(list) : list[i] = a}
    IN IF I = {} THEN 0 ELSE CHOOSE i \in I : \A j \in I : i <= j

\* mutant: the last entry is dropped instead of the one found
RemoveLast(list, i) == SubSeq(list, 1, Len(list) - 1)

\* mutant: the new list is made one entry too long
RemoveAtNoShrink(list, i) ==
    [j \in 1..Len(list) |->
        IF j < i THEN list[j] ELSE IF j < Len(list) THEN list[j + 1] ELSE <<>>]

RemoveAt(list, i) ==
    [j \in 1..(Len(list) - 1) |-> IF j < i THEN list[j] ELSE list[j + 1]]

\* mutant: the counter is not used for the selection
SelectIndexStuck(i, list) == 0

\* int(idx) % len(addrs)
SelectIndex(i, list) == GoRem(i, Len(list))

\* history: the addresses selected in a row from the same key and list
Extend(sel, k, list, i) ==
    IF sel.key = k /\ sel.list = list
    THEN [sel EXCEPT !.trail =
            IF Len(@) < 2 * Len(list) THEN Append(@, i) ELSE Append(Tail(@), i)]
    ELSE [key |-> k, list |-> list, trail |-> <<i>>]

----------------------------------------------------------------------------
\* Dial is called: lines 34-35 and getAddrs lines 79-80 (now is kept only
\* on the stale branch, the one that reads it again, and until it does)
Dial(p, k, cap) ==
    /\ pc[p] \in {"idle", "returned"}
    /\ idx + Cardinality(Pending) < cap
    /\ host' = [host EXCEPT ![p] = k]
    /\ now' = [now EXCEPT ![p] = IF Expired(clock, resolved) THEN clock ELSE 0]
    /\ pc' = [pc EXCEPT ![p] = IF Expired(clock, resolved) THEN "sLock" ELSE "rLock"]
    /\ addrs' = [addrs EXCEPT ![p] = <<>>]
    /\ err' = [err EXCEPT ![p] = "nil"]
    /\ addr' = [addr EXCEPT ![p] = <<>>]
    /\ found' = [found EXCEPT ![p] = FALSE]
    /\ ips' = [ips EXCEPT ![p] = <<>>]
    /\ nLookups' = [nLookups EXCEPT ![p] = 0]
    /\ nDials' = [nDials EXCEPT ![p] = 0]
    /\ nIncs' = [nIncs EXCEPT ![p] = 0]
    /\ entry' = [entry EXCEPT ![p] =
                    [list |-> MapGet(dAddrs, k), ok |-> MapOk(dAddrs, k),
                     fresh |-> clock - resolved <= TTL, stored |-> FALSE]]
    /\ batch' = [batch EXCEPT ![p] =
                    [on |-> clock - resolved <= TTL /\ Len(MapGet(dAddrs, k)) = 0,
                     stores |-> 0]]
    /\ UNCHANGED <<shared, lastSel, lastStored, storedAt, failsSince>>

\* getAddrs lines 81-93: the stale branch takes the exclusive lock and re-checks
StaleLock(p) ==
    /\ pc[p] = "sLock"
    /\ LockFree
    /\ writer' = p
    /\ LET a == StaleCached(now[p], resolved, dAddrs, host[p])
       IN /\ addrs' = [addrs EXCEPT ![p] = a]
          /\ pc' = [pc EXCEPT ![p] = IF Len(a) = 0 THEN "update" ELSE "unlock"]
    /\ now' = [now EXCEPT ![p] = 0]
    /\ UNCHANGED <<dAddrs, resolved, idx, readers, excludeIPv6, clock>>
    /\ UNCHANGED <<host, err, addr, found, ips, history>>

\* getAddrs line 101
RLock(p) ==
    /\ pc[p] = "rLock"
    /\ writer = NoProc
    /\ readers' = readers \cup {p}
    /\ pc' = [pc EXCEPT ![p] = "rRead"]
    /\ UNCHANGED <<dAddrs, resolved, idx, writer, excludeIPv6, clock>>
    /\ UNCHANGED <<host, now, addrs, err, addr, found, ips, history>>

\* mutant: the shared lock is not released before the exclusive one is asked for
RReadKeepsLock(p) ==
    /\ pc[p] = "rRead"
    /\ addrs' = [addrs EXCEPT ![p] = MapGet(dAddrs, host[p])]
    /\ pc' = [pc EXCEPT ![p] =
                IF Missing(dAddrs, host[p]) THEN "fLock" ELSE "gotAddrs"]
    /\ UNCHANGED <<shared, host, now, err, addr, found, ips, history>>

\* getAddrs lines 102-105
RRead(p) ==
    /\ pc[p] = "rRead"
    /\ readers' = readers \ {p}
    /\ addrs' = [addrs EXCEPT ![p] = MapGet(dAddrs, host[p])]
    /\ pc' = [pc EXCEPT ![p] =
                IF Missing(dAddrs, host[p]) THEN "fLock" ELSE "gotAddrs"]
    /\ UNCHANGED <<dAddrs, resolved, idx, writer, excludeIPv6, clock>>
    /\ UNCHANGED <<host, now, err, addr, found, ips, history>>

\* mutant: the fresh branch resolves without reading the map again
FreshLockNoRecheck(p) ==
    /\ pc[p] = "fLock"
    /\ LockFree
    /\ writer' = p
    /\ pc' = [pc EXCEPT ![p] = "update"]
    /\ UNCHANGED <<dAddrs, resolved, idx, readers, excludeIPv6, clock>>
    /\ UNCHANGED <<host, now, addrs, err, addr, found, ips, history>>

\* getAddrs lines 106-107: the fresh branch takes the exclusive lock and re-reads
FreshLock(p) ==
    /\ pc[p] = "fLock"
    /\ LockFree
    /\ writer' = p
    /\ addrs' = [addrs EXCEPT ![p] = MapGet(dAddrs, host[p])]
    /\ pc' = [pc EXCEPT ![p] =
                IF Missing(dAddrs, host[p]) THEN "update" ELSE "unlock"]
    /\ UNCHANGED <<dAddrs, resolved, idx, readers, excludeIPv6, clock>>
    /\ UNCHANGED <<host, now, err, addr, found, ips, history>>

\* updateAddrs line 123, resolve lines 142-151: split the key, call LookupIP
ResolveCall(p) ==
    /\ pc[p] = "update"
    /\ LET s == SplitHostPort(host[p])
       IN IF s.err # "nil"
          THEN /\ err' = [err EXCEPT ![p] = s.err]
               /\ addrs' = [addrs EXCEPT ![p] = <<>>]
               /\ pc' = [pc EXCEPT ![p] = "unlock"]
               /\ batch' = BatchOff(host[p])
               /\ UNCHANGED nLookups
          ELSE /\ nLookups' = [nLookups EXCEPT ![p] = @ + 1]
               /\ pc' = [pc EXCEPT ![p] = "lookup"]
               /\ UNCHANGED <<err, addrs, batch>>
    /\ UNCHANGED <<shared, host, now, addr, found, ips>>
    /\ UNCHANGED <<nDials, nIncs, entry, lastSel, lastStored, storedAt, failsSince>>

\* mutant: a failed lookup drops the key's cached list
LookupErrClears(p) ==
    /\ pc[p] = "lookup"
    /\ err' = [err EXCEPT ![p] = "ErrLookup"]
    /\ addrs' = [addrs EXCEPT ![p] = <<>>]
    /\ dAddrs' = MapPut(dAddrs, host[p], <<>>)
    /\ pc' = [pc EXCEPT ![p] = "unlock"]
    /\ UNCHANGED <<resolved, idx, writer, readers, excludeIPv6, clock>>
    /\ UNCHANGED <<host, now, addr, found, ips, history>>

\* resolve lines 151-154, updateAddrs lines 124-126: LookupIP fails
LookupErr(p) ==
    /\ pc[p] = "lookup"
    /\ err' = [err EXCEPT ![p] = "ErrLookup"]
    /\ addrs' = [addrs EXCEPT ![p] = <<>>]
    /\ pc' = [pc EXCEPT ![p] = "unlock"]
    /\ batch' = BatchOff(host[p])
    /\ UNCHANGED <<shared, host, now, addr, found, ips>>
    /\ UNCHANGED <<nLookups, nDials, nIncs, entry, lastSel, lastStored, storedAt, failsSince>>

\* resolve lines 151-168, updateAddrs lines 128-138: LookupIP returns r
LookupOk(p, r) ==
    /\ pc[p] = "lookup"
    /\ LET list == ResolveLoop(r, SplitHostPort(host[p]).port, excludeIPv6, <<>>)
       IN /\ ips' = [ips EXCEPT ![p] = r]
          /\ dAddrs' = MapPut(dAddrs, host[p], list)
          /\ resolved' = clock
          /\ addrs' = [addrs EXCEPT ![p] = list]
          /\ lastStored' = [lastStored EXCEPT ![host[p]] = list]
          /\ storedAt' = [storedAt EXCEPT ![host[p]] = clock]
          /\ failsSince' = [failsSince EXCEPT ![host[p]] = 0]
    /\ entry' = [q \in Procs |->
                    IF q # p /\ pc[q] \in {"sLock", "fLock"} /\ host[q] = host[p]
                    THEN [entry[q] EXCEPT !.stored = TRUE] ELSE entry[q]]
    /\ batch' = IF entry[p].fresh /\ dAddrs'[host[p]] # <<>>
                 THEN [q \in Procs |->
                         IF batch[q].on /\ host[q] = host[p]
                         THEN [batch[q] EXCEPT !.stores = @ + 1] ELSE batch[q]]
                 ELSE BatchOff(host[p])
    /\ pc' = [pc EXCEPT ![p] = "unlock"]
    /\ UNCHANGED <<idx, writer, readers, excludeIPv6, clock>>
    /\ UNCHANGED <<host, now, err, addr, found, nLookups, nDials, nIncs, lastSel>>

\* mutant: getAddrs returns without Unlock
UnlockKeeps(p) ==
    /\ pc[p] = "unlock"
    /\ pc' = [pc EXCEPT ![p] = "gotAddrs"]
    /\ UNCHANGED <<shared, host, now, addrs, err, addr, found, ips, history>>

\* getAddrs lines 97-98, 110-111, 116-119
Unlock(p) ==
    /\ pc[p] = "unlock"
    /\ writer' = NoProc
    /\ pc' = [pc EXCEPT ![p] = "gotAddrs"]
    /\ UNCHANGED <<dAddrs, resolved, idx, readers, excludeIPv6, clock>>
    /\ UNCHANGED <<host, now, addrs, err, addr, found, ips, history>>

\* a return of Dial: its locals go out of scope; host, err and found stay
\* visible as the call's argument and outcome
Return(p) ==
    /\ pc' = [pc EXCEPT ![p] = "returned"]
    /\ now' = [now EXCEPT ![p] = 0]
    /\ addrs' = [addrs EXCEPT ![p] = <<>>]
    /\ addr' = [addr EXCEPT ![p] = <<>>]
    /\ ips' = [ips EXCEPT ![p] = <<>>]
    /\ UNCHANGED host

\* Dial lines 36-38
ReturnErr(p) ==
    /\ pc[p] = "gotAddrs"
    /\ err[p] # "nil"
    /\ Return(p)
    /\ batch' = [batch EXCEPT ![p] = NoBatch]
    /\ UNCHANGED <<shared, err, found>>
    /\ UNCHANGED <<nLookups, nDials, nIncs, entry, lastSel, lastStored, storedAt, failsSince>>

\* Dial lines 40-42
ReturnCantResolve(p) ==
    /\ pc[p] = "gotAddrs"
    /\ err[p] = "nil"
    /\ Len(addrs[p]) = 0
    /\ err' = [err EXCEPT ![p] = "ErrCantResolve"]
    /\ Return(p)
    /\ batch' = [batch EXCEPT ![p] = NoBatch]
    /\ UNCHANGED <<shared, found>>
    /\ UNCHANGED <<nLookups, nDials, nIncs, entry, lastSel, lastStored, storedAt, failsSince>>

\* Dial lines 44-45: an index out of range panics
Select(p) ==
    /\ pc[p] = "gotAddrs"
    /\ err[p] = "nil"
    /\ Len(addrs[p]) # 0
    /\ idx' = AddInt64(idx, 1)
    /\ nIncs' = [nIncs EXCEPT ![p] = @ + 1]
    /\ batch' = [batch EXCEPT ![p] = NoBatch]
    /\ LET i == SelectIndex(idx', addrs[p])
       IN IF i < 0
          THEN /\ pc' = [pc EXCEPT ![p] = "panic"]
               /\ UNCHANGED <<addr, lastSel>>
          ELSE /\ addr' = [addr EXCEPT ![p] = addrs[p][i + 1]]
               /\ lastSel' = Extend(lastSel, host[p], addrs[p], addrs[p][i + 1])
               /\ pc' = [pc EXCEPT ![p] = "connect"]
    /\ UNCHANGED <<dAddrs, resolved, writer, readers, excludeIPv6, clock>>
    /\ UNCHANGED <<host, now, addrs, err, found, ips>>
    /\ UNCHANGED <<nLookups, nDials, entry, lastStored, storedAt, failsSince>>

\* Dial lines 47, 75: the connector is called and succeeds
ConnectOk(p) ==
    /\ pc[p] = "connect"
    /\ nDials' = [nDials EXCEPT ![p] = @ + 1]
    /\ Return(p)
    /\ UNCHANGED <<shared, err, found>>
    /\ UNCHANGED <<nLookups, nIncs, entry, lastSel, lastStored, storedAt, failsSince, batch>>

\* Dial lines 47-48: the connector is called and fails
ConnectFail(p) ==
    /\ pc[p] = "connect"
    /\ nDials' = [nDials EXCEPT ![p] = @ + 1]
    /\ err' = [err EXCEPT ![p] = "ErrDial"]
    /\ failsSince' = [failsSince EXCEPT ![host[p]] = @ + 1]
    /\ batch' = BatchOff(host[p])
    /\ pc' = [pc EXCEPT ![p] = "eLock"]
    /\ UNCHANGED <<shared, host, now, addrs, addr, found, ips>>
    /\ UNCHANGED <<nLookups, nIncs, entry, lastSel, lastStored, storedAt>>

\* Dial line 49
EvictLock(p) ==
    /\ pc[p] = "eLock"
    /\ LockFree
    /\ writer' = p
    /\ pc' = [pc EXCEPT ![p] = "evict"]
    /\ UNCHANGED <<dAddrs, resolved, idx, readers, excludeIPv6, clock>>
    /\ UNCHANGED <<host, now, addrs, err, addr, found, ips, history>>

\* mutant: the entry is removed in place (append(addrs[:i], addrs[i+1:]...)),
\* which shifts the entries of the array the other holders of the list read
EvictInPlace(p) ==
    /\ pc[p] = "evict"
    /\ LET list == MapGet(dAddrs, host[p])
           i == FirstIndex(list, addr[p])
           shifted == [j \in 1..Len(list) |->
                         IF j < i \/ j = Len(list) THEN list[j] ELSE list[j + 1]]
       IN IF ~Missing(dAddrs, host[p]) /\ i # 0
          THEN /\ found' = [found EXCEPT ![p] = TRUE]
               /\ dAddrs' = MapPut(dAddrs, host[p], RemoveAt(list, i))
               /\ addrs' = [q \in Procs |->
                               IF q = p THEN <<>>
                               ELSE IF host[q] = host[p] /\ addrs[q] = list
                               THEN shifted ELSE addrs[q]]
          ELSE /\ addrs' = [addrs EXCEPT ![p] = <<>>]
               /\ UNCHANGED <<found, dAddrs>>
    /\ writer' = NoProc
    /\ pc' = [pc EXCEPT ![p] = "returned"]
    /\ now' = [now EXCEPT ![p] = 0]
    /\ addr' = [addr EXCEPT ![p] = <<>>]
    /\ ips' = [ips EXCEPT ![p] = <<>>]
    /\ batch' = BatchOff(host[p])
    /\ UNCHANGED <<host, resolved, idx, readers, excludeIPv6, clock>>
    /\ UNCHANGED <<err, nLookups, nDials, nIncs, entry, lastSel, lastStored,
                   storedAt, failsSince>>

\* Dial lines 50-75: remove the attempted address from the key's current list
Evict(p) ==
    /\ pc[p] = "evict"
    /\ LET list == MapGet(dAddrs, host[p])
           i == FirstIndex(list, addr[p])
       IN IF ~Missing(dAddrs, host[p]) /\ i # 0
          THEN /\ found' = [found EXCEPT ![p] = TRUE]
               /\ dAddrs' = MapPut(dAddrs, host[p], RemoveAt(list, i))
          ELSE UNCHANGED <<found, dAddrs>>
    /\ writer' = NoProc
    /\ Return(p)
    /\ batch' = BatchOff(host[p])
    /\ UNCHANGED <<resolved, idx, readers, excludeIPv6, clock>>
    /\ UNCHANGED <<err, nLookups, nDials, nIncs, entry, lastSel, lastStored,
                   storedAt, failsSince>>

\* time passes
Tick ==
    /\ clock < MaxTime
    /\ clock' = clock + 1
    /\ batch' = [q \in Procs |->
                    IF clock' - resolved <= TTL THEN batch[q] ELSE NoBatch]
    /\ UNCHANGED <<dAddrs, resolved, idx, writer, readers, excludeIPv6>>
    /\ UNCHANGED <<locals, nLookups, nDials, nIncs, entry, lastSel, lastStored,
                   storedAt, failsSince>>

Step(p, cap, keys) ==
    \/ \E k \in keys : Dial(p, k, cap)
    \/ StaleLock(p)
    \/ RLock(p)
    \/ RRead(p)
    \/ FreshLock(p)
    \/ ResolveCall(p)
    \/ LookupErr(p)
    \/ \E r \in LookupIP(SplitHostPort(host[p]).host) : LookupOk(p, r)
    \/ Unlock(p)
    \/ ReturnErr(p)
    \/ ReturnCantResolve(p)
    \/ Select(p)
    \/ ConnectOk(p)
    \/ ConnectFail(p)
    \/ EvictLock(p)
    \/ Evict(p)

\* concurrent callers
Next == Tick \/ \E p \in Procs : Step(p, MaxIdx, ConcKeys)
Spec == Init /\ [][Next]_vars

\* a single caller: every call returns before the next one starts
NextSeq == Tick \/ Step(1, MaxIdxSeq, Keys)
SpecSeq == Init /\ [][NextSeq]_vars

\* a single caller that keeps dialling until the counter has passed its maximum
NoCap == MaxInt + 2
NextWrap == Step(1, NoCap, Keys)
SpecWrap == Init /\ [][NextWrap]_vars

\* Every step of a call that has started is taken once it can be: the
\* lookup and the connector return, and a caller blocked in Lock or RLock
\* gets the lock when it is free again and again (sync.RWMutex hands the
\* lock to its waiters: a pending Lock keeps new readers out, and a waiter
\* that has been starved is served first)
Progress(p) ==
    \/ StaleLock(p)
    \/ RLock(p)
    \/ RRead(p)
    \/ FreshLock(p)
    \/ ResolveCall(p)
    \/ LookupErr(p)
    \/ \E r \in LookupIP(SplitHostPort(host[p]).host) : LookupOk(p, r)
    \/ Unlock(p)
    \/ ReturnErr(p)
    \/ ReturnCantResolve(p)
    \/ Select(p)
    \/ ConnectOk(p)
    \/ ConnectFail(p)
    \/ EvictLock(p)
    \/ Evict(p)

Fairness == \A p \in Procs : SF_vars(Progress(p))

\* concurrent callers whose started calls are carried on (time.Now is read
\* at lines 79 and 132 only to choose the branch of getAddrs; both branches
\* are taken with the clock standing still)
NextLive == \E p \in Procs : Step(p, MaxIdx, ConcKeys)
SpecLive == Init /\ [][NextLive]_vars /\ Fairness

TypeOK ==
    /\ writer \in Procs \cup {NoProc}
    /\ readers \subseteq Procs
    /\ idx \in MinIdx..MaxInt
    /\ clock \in 0..MaxTime

----------------------------------------------------------------------------
\* Vocabulary of the properties

Returned(p) == pc[p] = "returned"

\* a key is a host:port string
WellFormed(k) == Len(k) = 3 /\ k[2] = ":" /\ k[1] # ":" /\ k[3] # ":"
KeyPort(k) == <<k[Len(k)]>>

\* an IP is usable unless IPv6 is excluded and its text contains a colon
Usable(ip) == ~(excludeIPv6 /\ (\E i \in 1..Len(IPString(ip)) : IPString(ip)[i] = ":"))

\* one "[ip]:port" per usable IP, in the lookup's order
Formatted(list, k) ==
    LET kept == SelectSeq(list, Usable)
    IN [i \in 1..Len(kept) |-> <<"[">> \o IPString(kept[i]) \o <<"]:">> \o KeyPort(k)]

\* list without its i-th entry
Without(list, i) == SubSeq(list, 1, i - 1) \o SubSeq(list, i + 1, Len(list))

\* the call of p has its list (getAddrs has returned)
PastGetAddrs(p) == pc[p] \in {"gotAddrs", "connect", "eLock", "evict", "returned"}

----------------------------------------------------------------------------
\* C1: round-robin coverage. The addresses selected in a row from one key's
\* list of N addresses follow the list's rotation order: for some start s the
\* i-th selection is list[(s + i) mod N], so any N consecutive selections
\* take each position of the list exactly once and the next N repeat them.
C1_RoundRobin ==
    LET list == lastSel.list
        t == lastSel.trail
        N == Len(list)
    IN t # <<>> =>
         \E s \in 0..(N - 1) :
            \A i \in 1..Len(t) : t[i] = list[((s + i - 1) % N) + 1]

\* two full rounds over a list of three addresses have been dialled
C1_Witness ==
    /\ Len(lastSel.list) = 3
    /\ Len(lastSel.trail) = 6
    /\ {lastSel.trail[i] : i \in 1..3} = Range(lastSel.list)
    /\ Cardinality(Range(lastSel.list)) = 3

\* C2: eviction on failure. The step that ends a Dial whose connector failed
\* returns the connector's error and leaves the key's list equal to the
\* previous list without one entry, the attempted address, the others in
\* order; and between calls every key's list has lost exactly one entry per
\* failed attempt since it was stored, so N failures in a row empty a list of N.
C2_EvictStep ==
    \A p \in Procs :
       (pc[p] = "evict" /\ pc'[p] # pc[p]) =>
          /\ pc'[p] = "returned"
          /\ err'[p] = "ErrDial"
          /\ LET L == MapGet(dAddrs, host[p])
             IN \E i \in 1..Len(L) :
                   /\ L[i] = addr[p]
                   /\ MapGet(dAddrs', host[p]) = Without(L, i)

C2_Shrinks ==
    (\A p \in Procs : pc[p] \in {"idle", "returned"}) =>
       \A k \in Keys :
          Len(MapGet(dAddrs, k)) = Len(lastStored[k]) - failsSince[k]

C2_Eviction == [][C2_EvictStep]_vars /\ []C2_Shrinks

\* three failed dials in a row have emptied a list of three distinct addresses
C2_Witness ==
    \E p \in Procs :
       /\ Returned(p)
       /\ err[p] = "ErrDial"
       /\ found[p]
       /\ Len(lastStored[host[p]]) = 3
       /\ Cardinality(Range(lastStored[host[p]])) = 3
       /\ failsSince[host[p]] = 3
       /\ MapGet(dAddrs, host[p]) = <<>>

\* C3 as stated: a Dial for a host:port key with no (or an empty) list invokes
\* the lookup exactly once, and a Dial for a key that an earlier Dial has
\* resolved, made before the TTL has expired, invokes the lookup zero times.
C3_AsStated ==
    \A p \in Procs :
       Returned(p) /\ WellFormed(host[p]) =>
          /\ (entry[p].list = <<>> => nLookups[p] = 1)
          /\ (entry[p].ok /\ entry[p].fresh => nLookups[p] = 0)

\* C3 amended: a Dial for a host:port key with no (or an empty) list invokes
\* the lookup exactly once; a Dial made while the cache is fresh for a key
\* whose list is not empty invokes the lookup zero times.
C3_ResolveOnce ==
    \A p \in Procs :
       Returned(p) /\ WellFormed(host[p]) =>
          /\ (entry[p].list = <<>> => nLookups[p] = 1)
          /\ (entry[p].list # <<>> /\ entry[p].fresh => nLookups[p] = 0)

\* a second Dial found the list of the first and did not look up
C3_Witness ==
    \E p \in Procs :
       /\ Returned(p)
       /\ entry[p].fresh
       /\ entry[p].list # <<>>
       /\ entry[p].list # lastStored[host[p]]
       /\ nLookups[p] = 0
       /\ nDials[p] = 1

\* C4: TTL expiry. A Dial for a host:port key that starts when
\* now - resolved > TTL invokes the lookup, whatever the key's list holds;
\* when the lookup succeeds the key's list becomes the formatted result and
\* resolved the current time, and the address dialled is one of that result.
C4_State ==
    \A p \in Procs :
       (WellFormed(host[p]) /\ ~entry[p].fresh) =>
          /\ (PastGetAddrs(p) => nLookups[p] = 1)
          /\ (pc[p] = "unlock" /\ err[p] = "nil" =>
                MapGet(dAddrs, host[p]) = Formatted(ips[p], host[p]))
          /\ (pc[p] = "connect" => addr[p] \in Range(Formatted(ips[p], host[p])))

C4_Step ==
    \A p \in Procs :
       (pc[p] = "lookup" /\ pc'[p] # pc[p] /\ err'[p] = "nil") =>
          /\ resolved' = clock
          /\ MapGet(dAddrs', host[p]) = Formatted(ips'[p], host[p])

C4_Expiry == []C4_State /\ [][C4_Step]_vars

\* a stale cache held a list for the key, and the address dialled is not in it
C4_Witness ==
    \E p \in Procs :
       /\ pc[p] = "connect"
       /\ ~entry[p].fresh
       /\ entry[p].list # <<>>
       /\ addr[p] \notin Range(entry[p].list)
       /\ resolved > 0

\* C5: an empty list is no entry. A Dial for a host:port key whose list is
\* empty when the call starts invokes the lookup before it calls the
\* connector, and once that lookup has succeeded the key's list is its result.
C5_EmptyIsAbsent ==
    \A p \in Procs :
       (WellFormed(host[p]) /\ entry[p].list = <<>>) =>
          /\ (pc[p] = "connect" \/ nDials[p] > 0 => nLookups[p] = 1)
          /\ (PastGetAddrs(p) => nLookups[p] = 1)
          /\ (pc[p] = "unlock" /\ err[p] = "nil" =>
                MapGet(dAddrs, host[p]) = Formatted(ips[p], host[p]))

\* a list that evictions had emptied has been stored again
C5_Witness ==
    \E p \in Procs :
       /\ pc[p] = "unlock"
       /\ host[p] = KeyB
       /\ entry[p].ok
       /\ entry[p].fresh
       /\ entry[p].list = <<>>
       /\ Len(MapGet(dAddrs, host[p])) >= 2

\* C6 as stated: a caller of the stale branch that finds, once it holds the
\* exclusive lock, a list that another caller stored for its key while it
\* waited does not invoke the lookup.
C6_SingleResolution ==
    \A p \in Procs :
       (pc[p] \in {"update", "lookup"} /\ ~entry[p].fresh) =>
          ~(entry[p].stored /\ MapGet(dAddrs, host[p]) # <<>>)

\* C7: resolution failure leaves the state unchanged. No step of a call up to
\* the lookup, and no step of a call whose error is the split's or the
\* lookup's, changes the address map, resolved or the counter; such a call
\* keeps its error until it returns and never calls the connector; a key that
\* cannot be split returns the split error.
ResolutionErrors == {"ErrSplit", "ErrLookup"}

C7_Step ==
    \A p \in Procs :
       pc'[p] # pc[p] =>
          /\ (pc[p] \in {"idle", "returned", "sLock", "rLock", "rRead", "fLock", "update"}
                \/ err'[p] \in ResolutionErrors)
               => UNCHANGED <<dAddrs, resolved, idx>>
          /\ err[p] \in ResolutionErrors /\ pc[p] # "returned"
               => /\ err'[p] = err[p]
                  /\ nDials'[p] = 0
                  /\ pc'[p] \in {"gotAddrs", "returned"}

C7_State ==
    \A p \in Procs :
       /\ (err[p] \in ResolutionErrors => nDials[p] = 0 /\ pc[p] \in {"unlock", "gotAddrs", "returned"})
       /\ (Returned(p) /\ ~WellFormed(host[p]) => err[p] = "ErrSplit" /\ nLookups[p] = 0)

C7_FailureKeepsState == [][C7_Step]_vars /\ []C7_State

\* a lookup failed on a stale cache and the key's list is as it was
C7_Witness ==
    \E p \in Procs :
       /\ Returned(p)
       /\ err[p] = "ErrLookup"
       /\ ~entry[p].fresh
       /\ entry[p].list # <<>>
       /\ MapGet(dAddrs, host[p]) = entry[p].list

\* C8: unresolvable host. A call whose lookup succeeded without a usable IP
\* returns the unresolvable-host error as its next step, and the connector
\* is not called.
C8_Step ==
    \A p \in Procs :
       (/\ pc[p] = "gotAddrs"
        /\ pc'[p] # pc[p]
        /\ nLookups[p] = 1
        /\ err[p] = "nil"
        /\ \A i \in 1..Len(ips[p]) : ~Usable(ips[p][i])) =>
          /\ pc'[p] = "returned"
          /\ err'[p] = "ErrCantResolve"
          /\ nDials'[p] = 0

C8_Unresolvable == [][C8_Step]_vars

\* a lookup that returned an IPv6 address only, with IPv6 excluded
C8_Witness ==
    \E p \in Procs :
       /\ Returned(p)
       /\ err[p] = "ErrCantResolve"
       /\ nLookups[p] = 1
       /\ nDials[p] = 0
       /\ excludeIPv6
       /\ lastStored[host[p]] = <<>>
       /\ host[p] = KeyA

\* C9: concurrent eviction is idempotent. The eviction step of a failed Dial
\* returns the connector's error; it leaves the map as it is when the
\* attempted address is not in the key's current list, and otherwise removes
\* one entry equal to that address and nothing else.
C9_Step ==
    \A p \in Procs :
       (pc[p] = "evict" /\ pc'[p] # pc[p]) =>
          LET L == MapGet(dAddrs, host[p])
          IN /\ pc'[p] = "returned"
             /\ err'[p] = "ErrDial"
             /\ \A k \in Keys \ {host[p]} : MapGet(dAddrs', k) = MapGet(dAddrs, k)
             /\ (addr[p] \notin Range(L) => dAddrs' = dAddrs /\ ~found'[p])
             /\ (addr[p] \in Range(L) =>
                   \E i \in 1..Len(L) :
                      L[i] = addr[p] /\ MapGet(dAddrs', host[p]) = Without(L, i))

C9_IdempotentEviction == [][C9_Step]_vars

\* a failed Dial returned without evicting: its address was already gone
C9_Witness ==
    \E p \in Procs :
       /\ Returned(p)
       /\ err[p] = "ErrDial"
       /\ nDials[p] = 1
       /\ ~found[p]

\* C10: resolution result. The list a successful resolve returns holds one
\* "[ip]:port" per IP of the lookup, in the lookup's order, with the key's
\* port; with ExcludeIPv6 the IPs whose text has a colon, and only they, are
\* left out.
C10_ResolveResult ==
    \A p \in Procs :
       (pc[p] = "unlock" /\ nLookups[p] = 1 /\ err[p] = "nil") =>
          addrs[p] = Formatted(ips[p], host[p])

\* an IPv6 address between two IPv4 ones has been left out
C10_Witness ==
    \E p \in Procs :
       /\ pc[p] = "unlock"
       /\ excludeIPv6
       /\ ips[p] = <<IPb, IPc, IPa>>
       /\ addrs[p] = << <<"[", "10", ".", "2", "]:", "81">>,
                        <<"[", "10", ".", "1", "]:", "81">> >>

\* C11 as stated: every Dial call, whatever its key and outcome, increments
\* the counter by exactly one, and the counter never decreases.
C11_AsStated ==
    /\ [](\A p \in Procs : Returned(p) => nIncs[p] = 1)
    /\ [][idx' >= idx]_vars

\* C11 amended: a Dial call increments the counter by exactly one when it has
\* obtained a non-empty list, whatever the key and whatever the connector
\* answers, and leaves it as it is when it returns a split, lookup or
\* unresolvable-host error; no other step changes the counter; the counter
\* never decreases except that the increment at its maximum wraps it to its
\* minimum.
IsSelectStep(p) == pc[p] = "gotAddrs" /\ pc'[p] \in {"connect", "panic"}

C11_Step ==
    /\ \A p \in Procs :
          pc'[p] # pc[p] =>
             IF IsSelectStep(p)
             THEN /\ (idx' = idx + 1 \/ (idx = MaxInt /\ idx' = MinIdx))
                  /\ nIncs'[p] = nIncs[p] + 1
             ELSE /\ idx' = idx
                  /\ nIncs'[p] = (IF pc[p] \in {"idle", "returned"} THEN 0 ELSE nIncs[p])
    /\ (\A p \in Procs : pc'[p] = pc[p]) => idx' = idx
    /\ (idx' >= idx \/ idx = MaxInt)

C11_State ==
    \A p \in Procs :
       Returned(p) =>
          nIncs[p] = (IF err[p] \in {"nil", "ErrDial"} THEN 1 ELSE 0)

C11_CounterStep == [][C11_Step]_vars /\ []C11_State

\* a Dial that failed to connect has incremented the counter after its wrap,
\* and dials of another key have returned errors without incrementing it
C11_Witness ==
    \E p \in Procs :
       /\ Returned(p)
       /\ err[p] = "ErrDial"
       /\ nIncs[p] = 1
       /\ host[p] = KeyB
       /\ idx < 0
       /\ KeyA \in DOMAIN dAddrs

----------------------------------------------------------------------------
\* Accesses to the cache state (d.addrs and d.resolved), step by step

\* the step of p reads d.resolved (lines 80, 86) or d.addrs (lines 87, 102,
\* 107, 51)
ReadsCache(p) ==
    /\ pc'[p] # pc[p]
    /\ pc[p] \in {"idle", "returned", "sLock", "rRead", "fLock", "evict"}

\* the step of p writes d.addrs (lines 131, 70) or d.resolved (line 132)
WritesCache(p) ==
    /\ pc'[p] # pc[p]
    /\ (dAddrs' # dAddrs \/ resolved' # resolved)

\* p holds d.mx while it takes the step (a step that begins with Lock holds
\* it from then on, one that ends with RUnlock held it until then)
HoldsExclusive(p) == writer = p \/ writer' = p
HoldsShared(p) == p \in readers

\* another caller is inside an exclusive critical section
OtherInExclusive(p) == writer \notin {p, NoProc}

\* C12 as stated: every write to the address map or to resolved is made by
\* the holder of the exclusive lock, every read of them by a holder of the
\* lock in shared or exclusive mode, and no caller reads them while another
\* caller is inside an exclusive critical section.
C12_Step ==
    \A p \in Procs :
       /\ (WritesCache(p) => HoldsExclusive(p))
       /\ (ReadsCache(p) => HoldsExclusive(p) \/ HoldsShared(p))
       /\ (ReadsCache(p) => ~OtherInExclusive(p))

C12_LockDiscipline == [][C12_Step]_vars

\* a lookup of q is in progress: resolve has called d.LookupIP (line 151)
InLookup(q) == pc[q] = "lookup"

\* C13 as stated: the caller of a lookup holds the exclusive lock, at most
\* one lookup is in progress at any time, and while a lookup is in progress
\* no other caller reads or writes the address map or resolved.
C13_State ==
    /\ \A q \in Procs : InLookup(q) => writer = q /\ readers = {}
    /\ Cardinality({q \in Procs : InLookup(q)}) <= 1

C13_Step ==
    \A q \in Procs :
       InLookup(q) =>
          \A p \in Procs \ {q} : ~ReadsCache(p) /\ ~WritesCache(p)

C13_LookupExclusive == []C13_State /\ [][C13_Step]_vars

\* C14: double-checked resolution on a fresh cache. A caller of the fresh
\* branch invokes the lookup only when, holding the exclusive lock, it still
\* finds the key's list absent or empty. Of the callers that dial a key
\* concurrently, each having started on a fresh cache with the key's list
\* absent or empty, while the cache stays fresh, the lookup returns a
\* non-empty list and no connector attempt fails: when one selects its
\* address, exactly one lookup result has been stored for the key since its
\* call started, the list it holds is that result and the address it dials
\* is one of it.
C14_State ==
    \A p \in Procs :
       /\ (entry[p].fresh /\ pc[p] \in {"update", "lookup"}) =>
             Len(MapGet(dAddrs, host[p])) = 0
       /\ batch[p].on => batch[p].stores <= 1
       /\ (batch[p].on /\ nLookups[p] = 1 /\ pc[p] \in {"unlock", "gotAddrs"}) =>
             batch[p].stores = 1

C14_Step ==
    \A p \in Procs :
       (batch[p].on /\ pc[p] = "gotAddrs" /\ pc'[p] # pc[p]) =>
          /\ pc'[p] = "connect"
          /\ batch[p].stores = 1
          /\ addrs[p] = lastStored[host[p]]
          /\ addr'[p] \in Range(lastStored[host[p]])

C14_DoubleChecked == []C14_State /\ [][C14_Step]_vars

\* two callers found the key's list empty on a fresh cache; one of them has
\* resolved it, and both are about to dial from the list it stored
C14_Witness ==
    \E p, q \in Procs :
       /\ p # q
       /\ host[p] = host[q]
       /\ pc[p] = "gotAddrs" /\ pc[q] = "gotAddrs"
       /\ batch[p].on /\ batch[q].on
       /\ nLookups[p] = 1 /\ nLookups[q] = 0
       /\ batch[p].stores = 1 /\ batch[q].stores = 1
       /\ addrs[p] = addrs[q]
       /\ Len(addrs[q]) = 2

\* C15: global TTL clock. The step that stores a resolution sets resolved to
\* the current time and changes the list of no other key; a Dial made while
\* now - resolved <= TTL for a key whose list is not empty invokes no lookup
\* and dials an address of that list, however long ago the list was stored.
C15_Step ==
    \A p \in Procs :
       (pc[p] = "lookup" /\ pc'[p] # pc[p] /\ err'[p] = "nil") =>
          /\ resolved' = clock
          /\ \A k \in Keys \ {host[p]} :
                /\ (k \in DOMAIN dAddrs') = (k \in DOMAIN dAddrs)
                /\ MapGet(dAddrs', k) = MapGet(dAddrs, k)

C15_State ==
    \A p \in Procs :
       (entry[p].fresh /\ entry[p].list # <<>>) =>
          /\ nLookups[p] = 0
          /\ (PastGetAddrs(p) /\ ~Returned(p) => addrs[p] = entry[p].list)
          /\ (pc[p] = "connect" => addr[p] \in Range(entry[p].list))
          /\ (Returned(p) => nDials[p] = 1)

C15_GlobalClock == [][C15_Step]_vars /\ []C15_State

\* a key's list stored more than a TTL ago is dialled without a lookup,
\* because another key has been resolved since
C15_Witness ==
    \E p \in Procs :
       /\ pc[p] = "connect"
       /\ host[p] = KeyB
       /\ entry[p].fresh
       /\ nLookups[p] = 0
       /\ clock - storedAt[KeyB] > TTL
       /\ storedAt[KeyA] = resolved
       /\ MapGet(dAddrs, KeyA) # <<>>

\* C16: deadlock freedom. Every Dial call that has started returns; a caller
\* holds the lock only between its Lock and Unlock (RLock and RUnlock), so
\* not when it has returned, on the error paths included; a caller that
\* asks for the exclusive lock does not hold the shared one; and the lock
\* is free when no Dial is in progress.
InCall(p) == pc[p] \notin {"idle", "returned"}

C16_State ==
    /\ \A p \in Procs :
          /\ (writer = p) = (pc[p] \in {"update", "lookup", "unlock", "evict"})
          /\ (p \in readers) = (pc[p] = "rRead")
          /\ (pc[p] \in {"sLock", "fLock", "eLock"} => p \notin readers)
          /\ pc[p] # "panic"
    /\ ((\A p \in Procs : ~InCall(p)) => LockFree)

C16_DeadlockFree ==
    /\ []C16_State
    /\ \A p \in Procs : InCall(p) ~> Returned(p)

\* a caller waits for the exclusive lock to evict while the other holds it
\* on the path of a failed lookup
C16_Witness ==
    \E p, q \in Procs :
       /\ pc[p] = "eLock"
       /\ pc[q] = "unlock"
       /\ err[q] = "ErrLookup"
       /\ writer = q

\* C17: from the empty cache on, every key's list is a subsequence, in
\* order, of the last lookup result stored for the key; a step changes a
\* key's list only by storing a complete resolution result for it or by
\* removing one of its entries.
RECURSIVE IsSubseq(_, _)
IsSubseq(s, t) ==
    IF s = <<>> THEN TRUE
    ELSE IF t = <<>> THEN FALSE
    ELSE IF Head(s) = Head(t) THEN IsSubseq(Tail(s), Tail(t))
    ELSE IsSubseq(s, Tail(t))

C17_State ==
    \A k \in Keys :
       /\ IsSubseq(MapGet(dAddrs, k), lastStored[k])
       /\ Len(MapGet(dAddrs, k)) <= Len(lastStored[k])

C17_Step ==
    \A k \in Keys :
       MapGet(dAddrs', k) # MapGet(dAddrs, k) =>
          \/ \E p \in Procs :
                /\ pc[p] = "lookup" /\ pc'[p] = "unlock"
                /\ host[p] = k
                /\ MapGet(dAddrs', k) = Formatted(ips'[p], k)
                /\ lastStored'[k] = Formatted(ips'[p], k)
          \/ \E i \in 1..Len(MapGet(dAddrs, k)) :
                /\ MapGet(dAddrs', k) = Without(MapGet(dAddrs, k), i)
                /\ lastStored'[k] = lastStored[k]

C17_Subsequence == []C17_State /\ [][C17_Step]_vars

\* the first of two stored addresses has been evicted while the other
\* caller holds the list as it was stored
C17_Witness ==
    \E p \in Procs :
       /\ Len(lastStored[KeyA]) = 2
       /\ MapGet(dAddrs, KeyA) = <<lastStored[KeyA][2]>>
       /\ pc[p] = "connect"
       /\ addrs[p] = lastStored[KeyA]

\* C18: snapshot safety. The list a call has obtained from getAddrs is not
\* changed, in content or length, by any step of another caller (evictions
\* and resolutions put a new list into the map); the address selected is
\* the entry of that list at an index within its bounds, and the address
\* handed to the connector is an element of that non-empty list.
HoldsList(p) == pc[p] \in {"unlock", "gotAddrs", "connect", "eLock"}

C18_Step ==
    \A p \in Procs :
       /\ (HoldsList(p) /\ pc'[p] = pc[p]) => addrs'[p] = addrs[p]
       /\ (pc[p] = "gotAddrs" /\ pc'[p] = "connect") =>
             /\ addrs'[p] = addrs[p]
             /\ \E i \in 1..Len(addrs[p]) : addr'[p] = addrs[p][i]

C18_State ==
    \A p \in Procs :
       pc[p] = "connect" => addrs[p] # <<>> /\ addr[p] \in Range(addrs[p])

C18_SnapshotSafety == [][C18_Step]_vars /\ []C18_State

\* a caller is about to select from the two addresses it obtained while the
\* other caller's eviction has left one of them in the map
C18_Witness ==
    \E p \in Procs :
       /\ pc[p] = "gotAddrs"
       /\ Len(addrs[p]) = 2
       /\ Len(MapGet(dAddrs, host[p])) = 1
       /\ failsSince[host[p]] = 1

\* C19: the connector is called without the lock. A caller that is in, or
\* takes the step of, its connector call holds the lock in neither mode, so
\* while a connector call is in progress another caller that asks for the
\* lock, to read, resolve or evict, finds it free unless a third party
\* holds it.
InConnector(p) == pc[p] = "connect"

C19_State ==
    \A p \in Procs :
       InConnector(p) =>
          /\ writer # p
          /\ p \notin readers
          /\ \A q \in Procs \ {p} :
                /\ (pc[q] \in {"sLock", "fLock", "eLock"} /\ ~LockFree =>
                       writer \notin {p, q, NoProc} \/ readers \ {p, q} # {})
                /\ (pc[q] = "rLock" /\ writer # NoProc => writer \notin {p, q})

C19_Step ==
    \A p \in Procs :
       nDials'[p] = nDials[p] + 1 =>
          /\ InConnector(p)
          /\ writer # p /\ writer' # p
          /\ p \notin readers /\ p \notin readers'

C19_ConnectorUnlocked == []C19_State /\ [][C19_Step]_vars

\* the other caller resolves under the exclusive lock while a connector
\* call is in progress
C19_Witness ==
    \E p, q \in Procs :
       /\ InConnector(p)
       /\ pc[q] = "lookup"
       /\ writer = q
       /\ host[q] = host[p]

\* C20: the index is in range for every counter value. For the non-empty
\* list of length L a call holds, the index computed from the counter after
\* its increment, the remainder of the signed counter by L, is in 0..L-1
\* for every value the counter reaches, the negative values after its wrap
\* included, and no selection panics.
C20_IndexInRange ==
    \A p \in Procs :
       /\ pc[p] # "panic"
       /\ (pc[p] = "gotAddrs" /\ err[p] = "nil" /\ Len(addrs[p]) > 0 =>
              SelectIndex(AddInt64(idx, 1), addrs[p]) \in 0 .. Len(addrs[p]) - 1)

====
